---- MODULE Spec2Model ----
(***************************************************************************)
(* Chaos scheduler for flagd-ui.                                           *)
(*   chaos-scheduler.py : the Driver (class ChaosScheduler), a timed loop  *)
(*   toggle-flags.py    : the Setter, run by the Driver as a subprocess or *)
(*                        from the command line                            *)
(* Time is counted in ticks, TicksPerSecond ticks to the second, relative  *)
(* to the start instant of the current interval.  Wire values are written  *)
(* as their JSON literals.  An optional value (Python None or a value) is  *)
(* a sequence of length 0 or 1.                                            *)
(***************************************************************************)
EXTENDS Integers, Sequences, FiniteSets, TLC

VARIABLES
    argv,     \* the Driver's command line: interval string, --dry-run, --seed
    drv,      \* the Driver process (ChaosScheduler fields, chaos_loop locals)
    twin,     \* a second, independent Driver run with the same seed and interval
    setter,   \* the Setter process (toggle-flags.py main/set_flag)
    store     \* the flag document held by the external flag service

vars == <<argv, drv, twin, setter, store>>

----------------------------------------------------------------------------
(* Bounds of the model *)

TicksPerSecond == 2     \* clock resolution
MaxJitter == 1          \* ticks a sleep may overshoot, or code may take between two clock reads
MaxCallTicks == 2       \* ticks a Setter subprocess that returns may take
MaxInterval == 10       \* largest interval length (seconds) on the command line
MaxIntervals == 2       \* loop iterations explored
MaxStrLen == 5          \* longest interval string given to parse_interval alone
MaxSeed == 2            \* largest --seed on the command line

(* Program constants *)

MinIntervalSeconds == 10     \* chaos-scheduler.py:284
SubprocessTimeout == 30      \* chaos-scheduler.py:134

None == "None"               \* Python None as a wire value

----------------------------------------------------------------------------
(* toggle-flags.py : the catalog *)

boolean_flags ==
    {"productCatalogFailure", "recommendationCacheFailure", "adManualGc",
     "adHighCpu", "adFailure", "cartFailure", "paymentUnreachable"}

numeric_flags == {"kafkaQueueProblems", "loadGeneratorFloodHomepage"}

\* payment_variant_map with the value of "90%" taken from its name
payment_variant_map_named ==
    ("100%" :> "1") @@ ("90%" :> "0.9") @@ ("75%" :> "0.75") @@
    ("50%" :> "0.5") @@ ("25%" :> "0.25") @@ ("10%" :> "0.1") @@ ("off" :> "0")

payment_variant_map ==
    ("100%" :> "1") @@ ("90%" :> "0.95") @@ ("75%" :> "0.75") @@
    ("50%" :> "0.5") @@ ("25%" :> "0.25") @@ ("10%" :> "0.1") @@ ("off" :> "0")

image_variant_map ==
    ("10sec" :> "10000") @@ ("5sec" :> "5000") @@ ("off" :> "0")

\* dict.get(key): the value, or None
DictGet(map, key) == IF key \in DOMAIN map THEN map[key] ELSE None

get_variant_value(flag_name, variant) ==
    IF flag_name \in boolean_flags THEN
        IF variant = "on" THEN "true"
        ELSE IF variant = "off" THEN "false"
        ELSE None
    ELSE IF flag_name \in numeric_flags THEN
        IF variant = "on" THEN "100"
        ELSE IF variant = "off" THEN "0"
        ELSE None
    ELSE IF flag_name = "paymentFailure" THEN DictGet(payment_variant_map, variant)
    ELSE IF flag_name = "imageSlowLoad" THEN DictGet(image_variant_map, variant)
    ELSE None

get_all_variants(flag_name) ==
    IF flag_name \in boolean_flags THEN ("on" :> "true") @@ ("off" :> "false")
    ELSE IF flag_name \in numeric_flags THEN ("on" :> "100") @@ ("off" :> "0")
    ELSE IF flag_name = "paymentFailure" THEN
        ("100%" :> "1") @@ ("90%" :> "0.95") @@ ("75%" :> "0.75") @@
        ("50%" :> "0.5") @@ ("25%" :> "0.25") @@ ("10%" :> "0.1") @@ ("off" :> "0")
    ELSE IF flag_name = "imageSlowLoad" THEN
        ("10sec" :> "10000") @@ ("5sec" :> "5000") @@ ("off" :> "0")
    ELSE <<>>

\* show_usage: the flags and the variant names the Setter says it accepts
usage_variants ==
    ("productCatalogFailure" :> {"on", "off"}) @@
    ("recommendationCacheFailure" :> {"on", "off"}) @@
    ("adManualGc" :> {"on", "off"}) @@
    ("adHighCpu" :> {"on", "off"}) @@
    ("adFailure" :> {"on", "off"}) @@
    ("kafkaQueueProblems" :> {"on", "off"}) @@
    ("cartFailure" :> {"on", "off"}) @@
    ("paymentFailure" :> {"100%", "90%", "75%", "50%", "25%", "10%", "off"}) @@
    ("paymentUnreachable" :> {"on", "off"}) @@
    ("loadGeneratorFloodHomepage" :> {"on", "off"}) @@
    ("imageSlowLoad" :> {"10sec", "5sec", "off"})

descriptions ==
    ("productCatalogFailure" :> "Fail product catalog service on a specific product") @@
    ("recommendationCacheFailure" :> "Fail recommendation service cache") @@
    ("adManualGc" :> "Triggers full manual garbage collections in the ad service") @@
    ("adHighCpu" :> "Triggers high cpu load in the ad service") @@
    ("adFailure" :> "Fail ad service") @@
    ("kafkaQueueProblems" :> "Overloads Kafka queue while simultaneously introducing a consumer side delay leading to a lag spike") @@
    ("cartFailure" :> "Fail cart service") @@
    ("paymentFailure" :> "Fail payment service charge requests n%") @@
    ("paymentUnreachable" :> "Payment service is unavailable") @@
    ("loadGeneratorFloodHomepage" :> "Flood the frontend with a large amount of requests.") @@
    ("imageSlowLoad" :> "slow loading images in the frontend")

get_flag_description(flag_name) ==
    IF flag_name \in DOMAIN descriptions THEN descriptions[flag_name] ELSE ""

all_flags ==
    <<"productCatalogFailure", "recommendationCacheFailure", "adManualGc",
      "adHighCpu", "adFailure", "kafkaQueueProblems", "cartFailure",
      "paymentFailure", "paymentUnreachable", "loadGeneratorFloodHomepage",
      "imageSlowLoad">>

AllFlagNames == {all_flags[i] : i \in DOMAIN all_flags}

\* default_variant with a second fault given a standing "on" default
default_variant_two_baselines(flag_name, target_flag, target_variant) ==
    IF flag_name = target_flag THEN target_variant
    ELSE IF flag_name \in {"productCatalogFailure", "adFailure"} THEN "on"
    ELSE "off"

\* default_variant without the standing "on" default of productCatalogFailure
default_variant_no_baseline(flag_name, target_flag, target_variant) ==
    IF flag_name = target_flag THEN target_variant ELSE "off"

\* the default variant construct_json gives flag_name when target_flag is the target
default_variant(flag_name, target_flag, target_variant) ==
    IF flag_name = target_flag THEN target_variant
    ELSE IF flag_name = "productCatalogFailure" THEN "on"
    ELSE "off"

construct_json(target_flag, target_variant) ==
    [schema |-> "https://flagd.dev/schema/v0/flags.json",
     flags  |-> [flag_name \in AllFlagNames |->
                    [description    |-> get_flag_description(flag_name),
                     state          |-> "ENABLED",
                     variants       |-> get_all_variants(flag_name),
                     defaultVariant |-> default_variant(flag_name, target_flag, target_variant)]]]

----------------------------------------------------------------------------
(* The external flag service and the HTTP exchange *)

\* the document the service holds before any chaos write: every fault at its
\* standing default (productCatalogFailure "on", the others "off")
StoreBaseline == construct_json(None, None)

\* outcomes of requests.post(.../write-to-file): a response with a status code
\* (2xx: the service has stored the document), or an exception, raised before
\* or after the service stored the document
PostOutcomes ==
    {[kind |-> "response", status |-> 200, applied |-> TRUE],
     [kind |-> "response", status |-> 201, applied |-> TRUE],
     [kind |-> "response", status |-> 204, applied |-> TRUE],
     [kind |-> "response", status |-> 404, applied |-> FALSE],
     [kind |-> "response", status |-> 500, applied |-> FALSE],
     [kind |-> "RequestException", status |-> 0, applied |-> FALSE],
     [kind |-> "RequestException", status |-> 0, applied |-> TRUE]}

----------------------------------------------------------------------------
(* toggle-flags.py : the Setter process *)

SetterIdle ==
    [pc |-> "idle", flag_name |-> <<>>, variant |-> <<>>, help |-> FALSE,
     variant_value |-> None, posts |-> 0, gets |-> 0, sent |-> <<>>,
     response |-> <<>>, exit_code |-> <<>>]

\* a Setter process started with the given arguments
SetterLaunch(flag_name, variant, help) ==
    [SetterIdle EXCEPT !.pc = "main", !.flag_name = flag_name,
                       !.variant = variant, !.help = help]

SetterRunning(s) == s.pc \in {"main", "list", "post"}

SetterExit(s, code) == [s EXCEPT !.pc = "exited", !.exit_code = <<code>>]

\* is_invalid with the validation left out
is_invalid_never(variant_value) == FALSE

\* is_invalid testing the value's truth instead of its identity with None
is_invalid_falsy(variant_value) == variant_value \in {None, "false", "0"}

\* set_flag's validation: the pair is rejected when get_variant_value is None
is_invalid(variant_value) == variant_value = None

\* main() up to the request: usage, list, missing variant, then set_flag's
\* validation of the pair
SetterMainStep(s) ==
    IF s.help \/ s.flag_name = <<>> THEN SetterExit(s, 0)
    ELSE IF s.flag_name[1] = "list" THEN [s EXCEPT !.pc = "list"]
    ELSE IF s.variant = <<>> THEN SetterExit(s, 1)
    ELSE LET variant_value == get_variant_value(s.flag_name[1], s.variant[1]) IN
         IF is_invalid(variant_value)
         THEN SetterExit([s EXCEPT !.variant_value = variant_value], 1)
         ELSE [s EXCEPT !.pc = "post", !.variant_value = variant_value]

\* post_succeeded taking every 2xx status for a success
post_succeeded_any_2xx(o) == o.kind = "response" /\ o.status \in 200 .. 299

\* set_flag's result for one outcome of the POST
post_succeeded(o) == o.kind = "response" /\ o.status \in {200, 201}

SetterPostStep(s, o) ==
    SetterExit([s EXCEPT !.posts = @ + 1,
                         !.sent = <<construct_json(s.flag_name[1], s.variant[1])>>,
                         !.response = <<o>>],
               IF post_succeeded(o) THEN 0 ELSE 1)

SetterMain ==
    /\ setter.pc = "main"
    /\ setter' = SetterMainStep(setter)
    /\ UNCHANGED <<argv, drv, twin, store>>

SetterPost ==
    /\ setter.pc = "post"
    /\ \E o \in PostOutcomes :
        /\ setter' = SetterPostStep(setter, o)
        /\ store' = IF o.applied
                    THEN construct_json(setter.flag_name[1], setter.variant[1])
                    ELSE store
    /\ UNCHANGED <<argv, drv, twin>>

\* the script cannot be run (an import of toggle-flags.py fails): the
\* interpreter ends the process with exit code 1 before main() is reached
SetterCrash ==
    /\ setter.pc = "main"
    /\ setter' = SetterExit(setter, 1)
    /\ UNCHANGED <<argv, drv, twin, store>>

\* list_current_status: one GET of the read endpoint, nothing written
SetterList ==
    /\ setter.pc = "list"
    /\ setter' = SetterExit([setter EXCEPT !.gets = @ + 1], 0)
    /\ UNCHANGED <<argv, drv, twin, store>>

----------------------------------------------------------------------------
(* The pseudo-random generator of the random module, as a small linear      *)
(* congruential generator: a draw is a function of the generator state and  *)
(* of the requested range, and advances the state.                          *)

RngModulus == 67
RngMultiplier == 2
RngIncrement == 1

Seeds == 0 .. RngModulus - 1

RngSeed(seed) == seed % RngModulus
RngNext(state) == (RngMultiplier * state + RngIncrement) % RngModulus

\* random.randint(a, b) and random.choice(seq): the value drawn from a state
randint(state, a, b) == a + (RngNext(state) % (b - a + 1))
choice(state, seq) == seq[1 + (RngNext(state) % Len(seq))]

Max(a, b) == IF a >= b THEN a ELSE b

\* int(x) of a duration of n ticks, in seconds: truncation toward zero
IntSeconds(n) == IF n >= 0 THEN n \div TicksPerSecond ELSE -((-n) \div TicksPerSecond)

----------------------------------------------------------------------------
(* chaos-scheduler.py : parse_interval, on strings as sequences of characters *)

Digits == <<"0", "1", "2", "3", "4", "5", "6", "7", "8", "9">>
LowerCase == <<"a", "b", "c", "d", "e", "f", "g", "h", "i", "j", "k", "l", "m",
               "n", "o", "p", "q", "r", "s", "t", "u", "v", "w", "x", "y", "z">>
UpperCase == <<"A", "B", "C", "D", "E", "F", "G", "H", "I", "J", "K", "L", "M",
               "N", "O", "P", "Q", "R", "S", "T", "U", "V", "W", "X", "Y", "Z">>

Range(seq) == {seq[i] : i \in DOMAIN seq}
IndexOf(seq, c) == CHOOSE i \in DOMAIN seq : seq[i] = c

IsDigit(c) == c \in Range(Digits)
IsLetter(c) == c \in Range(LowerCase) \cup Range(UpperCase)
DigitValue(c) == IndexOf(Digits, c) - 1
Lower(c) == IF c \in Range(UpperCase) THEN LowerCase[IndexOf(UpperCase, c)] ELSE c

\* length of the longest run of digits (of letters) of str that starts at position i
RECURSIVE DigitsLen(_, _)
DigitsLen(str, i) ==
    IF i <= Len(str) /\ IsDigit(str[i]) THEN 1 + DigitsLen(str, i + 1) ELSE 0

RECURSIVE LettersLen(_, _)
LettersLen(str, i) ==
    IF i <= Len(str) /\ IsLetter(str[i]) THEN 1 + LettersLen(str, i + 1) ELSE 0

RECURSIVE ParseInt(_)
ParseInt(digits) ==
    IF digits = <<>> THEN 0
    ELSE 10 * ParseInt(SubSeq(digits, 1, Len(digits) - 1)) + DigitValue(digits[Len(digits)])

unit_multipliers ==
    (<<"s","e","c">> :> 1) @@ (<<"s","e","c","o","n","d">> :> 1) @@
    (<<"s","e","c","o","n","d","s">> :> 1) @@
    (<<"m","i","n">> :> 60) @@ (<<"m","i","n","u","t","e">> :> 60) @@
    (<<"m","i","n","u","t","e","s">> :> 60) @@
    (<<"h">> :> 3600) @@ (<<"h","o","u","r">> :> 3600) @@ (<<"h","o","u","r","s">> :> 3600) @@
    (<<"d","a","y">> :> 86400) @@ (<<"d","a","y","s">> :> 86400)

\* re.match(r'(\d+)([a-zA-Z]+)', s): the pattern is matched at the start of the
\* string, both groups greedy; what follows the letters is not looked at
parse_interval(interval_str) ==
    LET nd == DigitsLen(interval_str, 1)
        nl == LettersLen(interval_str, nd + 1)
    IN  IF nd = 0 \/ nl = 0 THEN 0
        ELSE LET number == ParseInt(SubSeq(interval_str, 1, nd))
                 unit == [i \in 1 .. nl |-> Lower(interval_str[nd + i])]
             IN  IF unit \in DOMAIN unit_multipliers
                 THEN number * unit_multipliers[unit]
                 ELSE 0

\* the decimal digits of n
RECURSIVE Decimal(_)
Decimal(n) == IF n < 10 THEN <<Digits[n + 1]>> ELSE Decimal(n \div 10) \o <<Digits[(n % 10) + 1]>>

\* the interval strings given to the Driver: every length from the minimum to
\* MaxInterval in seconds, one below the minimum, and one with an unknown unit
IntervalArgs ==
    {Decimal(n) \o <<"s", "e", "c">> : n \in MinIntervalSeconds - 1 .. MaxInterval}
    \cup {<<"1", "0", "s">>}

----------------------------------------------------------------------------
(* chaos-scheduler.py : the Driver *)

\* available_flags with a variant the Setter does not define
available_flags_stale ==
    ("productCatalogFailure" :> <<"on">>) @@
    ("recommendationCacheFailure" :> <<"on">>) @@
    ("adManualGc" :> <<"on">>) @@
    ("adHighCpu" :> <<"on">>) @@
    ("adFailure" :> <<"on">>) @@
    ("kafkaQueueProblems" :> <<"on">>) @@
    ("cartFailure" :> <<"on">>) @@
    ("paymentFailure" :> <<"100%", "90%", "75%", "50%", "25%", "10%">>) @@
    ("paymentUnreachable" :> <<"on">>) @@
    ("loadGeneratorFloodHomepage" :> <<"on">>) @@
    ("imageSlowLoad" :> <<"10sec", "5sec", "2sec">>)

available_flags ==
    ("productCatalogFailure" :> <<"on">>) @@
    ("recommendationCacheFailure" :> <<"on">>) @@
    ("adManualGc" :> <<"on">>) @@
    ("adHighCpu" :> <<"on">>) @@
    ("adFailure" :> <<"on">>) @@
    ("kafkaQueueProblems" :> <<"on">>) @@
    ("cartFailure" :> <<"on">>) @@
    ("paymentFailure" :> <<"100%", "90%", "75%", "50%", "25%", "10%">>) @@
    ("paymentUnreachable" :> <<"on">>) @@
    ("loadGeneratorFloodHomepage" :> <<"on">>) @@
    ("imageSlowLoad" :> <<"10sec", "5sec">>)

\* list(self.available_flags.keys()), in insertion order
available_flag_keys ==
    <<"productCatalogFailure", "recommendationCacheFailure", "adManualGc",
      "adHighCpu", "adFailure", "kafkaQueueProblems", "cartFailure",
      "paymentFailure", "paymentUnreachable", "loadGeneratorFloodHomepage",
      "imageSlowLoad">>

\* ChaosScheduler.__init__, and the locals of chaos_loop before their first
\* assignment.  rng is <<>> while the generator carries the entropy it was
\* created with, and <<state>> once seeded.  now is the wall-clock time in
\* ticks since interval_start_time; calls lists the set_flag calls of the
\* current interval; flag_duration is 0 until it is drawn in the interval.
DriverInit ==
    [pc |-> "parse_args", dry_run |-> FALSE, interval_seconds |-> 0, seed |-> <<>>,
     rng |-> <<>>, logged_seed |-> <<>>, interval_count |-> 0, now |-> 0,
     random_offset |-> 0, flag_name |-> "", variant |-> "", remaining_time |-> 0,
     flag_duration |-> 0, calls |-> <<>>, exit_code |-> <<>>, seedings |-> 0]

DriverOff == [DriverInit EXCEPT !.pc = "off"]

DriverExit(d, code) == [d EXCEPT !.pc = "exited", !.exit_code = <<code>>]

\* the program points inside the try block of chaos_loop
LoopPcs == {"interval_start", "wait_trigger", "activate", "activate_call",
            "active_sleep", "revert_call", "wait_end"}

\* parse_args without the test of the minimum interval
parse_args_no_minimum(d, a) ==
    IF a.interval = <<>> THEN DriverExit(d, 0)
    ELSE LET seconds == parse_interval(a.interval[1])
             d1 == [d EXCEPT !.interval_seconds = seconds]
         IN  IF seconds = 0 THEN DriverExit(d1, 1)
             ELSE [d1 EXCEPT !.dry_run = a.dry_run,
                             !.seed = a.seed,
                             !.rng = IF a.seed # <<>> THEN <<RngSeed(a.seed[1])>> ELSE @,
                             !.seedings = IF a.seed # <<>> THEN @ + 1 ELSE @,
                             !.pc = "validate"]

\* parse_args: usage, interval parsing and its minimum, options, seeding
parse_args(d, a) ==
    IF a.interval = <<>> THEN DriverExit(d, 0)
    ELSE LET seconds == parse_interval(a.interval[1])
             d1 == [d EXCEPT !.interval_seconds = seconds]
         IN  IF seconds = 0 THEN DriverExit(d1, 1)
             ELSE IF seconds < MinIntervalSeconds THEN DriverExit(d1, 1)
             ELSE [d1 EXCEPT !.dry_run = a.dry_run,
                             !.seed = a.seed,
                             !.rng = IF a.seed # <<>> THEN <<RngSeed(a.seed[1])>> ELSE @,
                             !.seedings = IF a.seed # <<>> THEN @ + 1 ELSE @,
                             !.pc = "validate"]

\* remaining_time = int(interval_end_time - current_time)
remaining_time(interval_seconds, now) ==
    IntSeconds(interval_seconds * TicksPerSecond - now)

\* offset_max with the inclusive upper end of randint off by one
offset_max_inclusive(interval_seconds) == Max(0, interval_seconds)

\* the upper end of the offset draw: max(0, interval_seconds - 1)
offset_max(interval_seconds) == Max(0, interval_seconds - 1)

\* chaos_loop, top of the loop to the wait for the trigger: the interval starts
\* now, the offset is drawn; elapsed is the time the second clock read finds passed
begin_interval(d, elapsed) ==
    [d EXCEPT !.interval_count = @ + 1,
              !.now = elapsed,
              !.random_offset = randint(d.rng[1], 0, offset_max(d.interval_seconds)),
              !.rng = <<RngNext(d.rng[1])>>,
              !.flag_duration = 0,
              !.calls = <<>>,
              !.pc = "wait_trigger"]

\* chaos_loop, the wait for the trigger has returned (overshoot ticks late, or,
\* when no sleep was due, overshoot ticks after the last clock read): fault and
\* variant are drawn, then either the interval is given up (continue) or the
\* duration is drawn
trigger(d, overshoot) ==
    LET woke == Max(d.now, d.random_offset * TicksPerSecond) + overshoot
        s1 == d.rng[1]
        flag == choice(s1, available_flag_keys)
        s2 == RngNext(s1)
        variant == choice(s2, available_flags[flag])
        s3 == RngNext(s2)
        remaining == remaining_time(d.interval_seconds, woke)
        d1 == [d EXCEPT !.now = woke, !.flag_name = flag, !.variant = variant,
                        !.remaining_time = remaining, !.rng = <<s3>>]
    IN  IF remaining <= 0
        THEN [d1 EXCEPT !.pc = "interval_start"]
        ELSE [d1 EXCEPT !.flag_duration = randint(s3, 1, Max(1, remaining)),
                        !.rng = <<RngNext(s3)>>,
                        !.pc = "activate"]

\* after_activation with the sleep and the revert outside the if
after_activation_always(ok) == "active_sleep"

\* after_activation with a failed activation ending the loop
after_activation_fatal(ok) == IF ok THEN "active_sleep" ELSE "exited"

\* where chaos_loop goes when set_flag(flag_name, variant) has returned ok
after_activation(ok) == IF ok THEN "active_sleep" ELSE "wait_end"

\* the activating set_flag has returned ok after elapsed ticks
activated(d, ok, elapsed) ==
    [d EXCEPT !.calls = Append(@, [flag_name |-> d.flag_name, variant |-> d.variant, ok |-> ok]),
              !.now = @ + elapsed,
              !.pc = after_activation(ok)]

\* time.sleep(flag_duration) has returned, overshoot ticks late
slept(d, overshoot) ==
    [d EXCEPT !.now = @ + d.flag_duration * TicksPerSecond + overshoot]

\* reverted with a failed revert tried again after another sleep
reverted_retry(d, ok, elapsed) ==
    [d EXCEPT !.calls = Append(@, [flag_name |-> d.flag_name, variant |-> "off", ok |-> ok]),
              !.now = @ + elapsed,
              !.pc = IF ok THEN "wait_end" ELSE "active_sleep"]

\* the reverting set_flag has returned ok after elapsed ticks
reverted(d, ok, elapsed) ==
    [d EXCEPT !.calls = Append(@, [flag_name |-> d.flag_name, variant |-> "off", ok |-> ok]),
              !.now = @ + elapsed,
              !.pc = "wait_end"]

\* chaos_loop, the wait until the end of the interval, and the end-of-interval mark
end_interval(d, overshoot) ==
    LET interval_end == d.interval_seconds * TicksPerSecond
        wait_time == IntSeconds(interval_end - d.now)
    IN  [d EXCEPT !.now = IF d.now < interval_end /\ wait_time > 0
                          THEN @ + wait_time * TicksPerSecond + overshoot
                          ELSE @,
                  !.pc = "interval_start"]

\* interrupted with the exception left to end the process as an error
interrupted_as_error(d) == DriverExit(d, 1)

\* except KeyboardInterrupt: log, sys.exit(0)
interrupted(d) == DriverExit(d, 0)

----------------------------------------------------------------------------
(* The Driver's steps *)

Jitter == 0 .. MaxJitter
CallTicks == 0 .. MaxCallTicks
TimeoutTicks == SubprocessTimeout * TicksPerSecond

ParseArgs ==
    /\ drv.pc = "parse_args"
    /\ drv' = parse_args(drv, argv)
    /\ UNCHANGED <<argv, twin, setter, store>>

\* validate_toggle_script: the script is missing, or running it raises, or it
\* is run with --help
ValidateToggleScript ==
    /\ drv.pc = "validate"
    /\ \E found \in {"missing", "raises", "runs"} :
        IF found = "runs"
        THEN /\ drv' = [drv EXCEPT !.pc = "probe_call"]
             /\ setter' = SetterLaunch(<<>>, <<>>, TRUE)
        ELSE /\ drv' = DriverExit(drv, 1)
             /\ UNCHANGED setter
    /\ UNCHANGED <<argv, twin, store>>

ProbeReturn ==
    /\ drv.pc = "probe_call"
    /\ setter.pc = "exited"
    /\ drv' = IF setter.exit_code # <<0>> THEN DriverExit(drv, 1)
              ELSE [drv EXCEPT !.pc = "loop_setup"]
    /\ UNCHANGED <<argv, twin, setter, store>>

\* subprocess.run(..., timeout=5) kills the child and raises TimeoutExpired
ProbeTimeout ==
    /\ drv.pc = "probe_call"
    /\ SetterRunning(setter)
    /\ setter' = [setter EXCEPT !.pc = "killed"]
    /\ drv' = DriverExit(drv, 1)
    /\ UNCHANGED <<argv, twin, store>>

\* LoopSetup seeding the generator afresh also when --seed was given
LoopSetupAlwaysFresh ==
    /\ drv.pc = "loop_setup"
    /\ \E current_seed \in Seeds :
            drv' = [drv EXCEPT !.rng = <<RngSeed(current_seed)>>,
                               !.seedings = @ + 1,
                               !.logged_seed = IF drv.seed # <<>> THEN drv.seed
                                               ELSE <<current_seed>>,
                               !.pc = "interval_start"]
    /\ UNCHANGED <<argv, twin, setter, store>>

\* chaos_loop before the loop: the seed is logged; without --seed a fresh seed
\* is drawn from the unseeded generator and the generator is seeded with it
LoopSetup ==
    /\ drv.pc = "loop_setup"
    /\ IF drv.seed # <<>>
       THEN drv' = [drv EXCEPT !.logged_seed = drv.seed, !.pc = "interval_start"]
       ELSE \E current_seed \in Seeds :
                drv' = [drv EXCEPT !.rng = <<RngSeed(current_seed)>>,
                                   !.seedings = @ + 1,
                                   !.logged_seed = <<current_seed>>,
                                   !.pc = "interval_start"]
    /\ UNCHANGED <<argv, twin, setter, store>>

BeginInterval ==
    /\ drv.pc = "interval_start"
    /\ drv.interval_count < MaxIntervals
    /\ \E elapsed \in Jitter : drv' = begin_interval(drv, elapsed)
    /\ UNCHANGED <<argv, twin, setter, store>>

Trigger ==
    /\ drv.pc = "wait_trigger"
    /\ \E overshoot \in Jitter : drv' = trigger(drv, overshoot)
    /\ UNCHANGED <<argv, twin, setter, store>>

\* simulated with the dry-run test left out
simulated_never(d) == FALSE

\* set_flag's test of self.dry_run
simulated(d) == d.dry_run

\* set_flag has returned to chaos_loop: to the activation (call = "activate")
\* or to the revert (call = "revert")
returned(d, call, ok, elapsed) ==
    IF call = "activate" THEN activated(d, ok, elapsed) ELSE reverted(d, ok, elapsed)

\* the Driver inside subprocess.run for that call
CallPc(call) == IF call = "activate" THEN "activate_call" ELSE "revert_call"

\* ChaosScheduler.set_flag up to subprocess.run: in dry-run it returns True at
\* once; otherwise the Setter is started, or starting it raises
SetFlag(d, variant, call) ==
    IF simulated(d)
    THEN drv' = returned(d, call, TRUE, 0) /\ UNCHANGED setter
    ELSE \E started \in BOOLEAN :
            IF started
            THEN /\ drv' = [d EXCEPT !.pc = CallPc(call)]
                 /\ setter' = SetterLaunch(<<d.flag_name>>, <<variant>>, FALSE)
            ELSE drv' = returned(d, call, FALSE, 0) /\ UNCHANGED setter

\* subprocess.run has returned: set_flag is True exactly when the exit code is 0
SetFlagReturn(call) ==
    /\ drv.pc = CallPc(call)
    /\ setter.pc = "exited"
    /\ \E elapsed \in CallTicks :
            drv' = returned(drv, call, setter.exit_code = <<0>>, elapsed)
    /\ UNCHANGED setter

\* subprocess.run(..., timeout=30) kills the child and raises TimeoutExpired
SetFlagTimeout(call) ==
    /\ drv.pc = CallPc(call)
    /\ SetterRunning(setter)
    /\ setter' = [setter EXCEPT !.pc = "killed"]
    /\ drv' = returned(drv, call, FALSE, TimeoutTicks)

Activate ==
    /\ drv.pc = "activate"
    /\ SetFlag(drv, drv.variant, "activate")
    /\ UNCHANGED <<argv, twin, store>>

ActivateReturn ==
    /\ SetFlagReturn("activate")
    /\ UNCHANGED <<argv, twin, store>>

ActivateTimeout ==
    /\ SetFlagTimeout("activate")
    /\ UNCHANGED <<argv, twin, store>>

\* the active window ends, the Driver calls set_flag(flag_name, "off")
Revert ==
    /\ drv.pc = "active_sleep"
    /\ \E overshoot \in Jitter : SetFlag(slept(drv, overshoot), "off", "revert")
    /\ UNCHANGED <<argv, twin, store>>

RevertReturn ==
    /\ SetFlagReturn("revert")
    /\ UNCHANGED <<argv, twin, store>>

RevertTimeout ==
    /\ SetFlagTimeout("revert")
    /\ UNCHANGED <<argv, twin, store>>

EndInterval ==
    /\ drv.pc = "wait_end"
    /\ \E overshoot \in Jitter : drv' = end_interval(drv, overshoot)
    /\ UNCHANGED <<argv, twin, setter, store>>

\* KeyboardInterrupt anywhere inside the try block; a child in flight is killed
\* by subprocess.run before the exception propagates
Interrupt ==
    /\ drv.pc \in LoopPcs
    /\ drv' = interrupted(drv)
    /\ setter' = IF SetterRunning(setter) THEN [setter EXCEPT !.pc = "killed"] ELSE setter
    /\ UNCHANGED <<argv, twin, store>>

Args ==
    [interval : {<<>>} \cup {<<str>> : str \in IntervalArgs},
     dry_run  : BOOLEAN,
     seed     : {<<>>} \cup {<<n>> : n \in 0 .. MaxSeed}]

Init ==
    /\ argv \in Args
    /\ drv = DriverInit
    /\ twin = DriverOff
    /\ setter = SetterIdle
    /\ store = StoreBaseline

Next ==
    \/ ParseArgs \/ ValidateToggleScript \/ ProbeReturn \/ ProbeTimeout \/ LoopSetup
    \/ BeginInterval \/ Trigger
    \/ Activate \/ ActivateReturn \/ ActivateTimeout
    \/ Revert \/ RevertReturn \/ RevertTimeout
    \/ EndInterval \/ Interrupt
    \/ SetterMain \/ SetterCrash \/ SetterPost

Spec == Init /\ [][Next]_vars

----------------------------------------------------------------------------
(* A run that is never cancelled.  The Driver is one sequential process:    *)
(* every clock read and every sleep returns, subprocess.run returns when    *)
(* the child exits or at its timeout, and the Setter bounds its request     *)
(* with a timeout of its own; so a step that can be taken is taken.         *)

NextUninterrupted ==
    \/ ParseArgs \/ ValidateToggleScript \/ ProbeReturn \/ ProbeTimeout \/ LoopSetup
    \/ BeginInterval \/ Trigger
    \/ Activate \/ ActivateReturn \/ ActivateTimeout
    \/ Revert \/ RevertReturn \/ RevertTimeout
    \/ EndInterval
    \/ SetterMain \/ SetterCrash \/ SetterPost

\* the runs followed to their end are started with --seed
InitUninterrupted ==
    /\ Init
    /\ argv.seed # <<>>

SpecUninterrupted ==
    InitUninterrupted /\ [][NextUninterrupted]_vars /\ WF_vars(NextUninterrupted)

----------------------------------------------------------------------------
(* Two runs with the same seed and interval length.  The second run starts  *)
(* from the first run's state at loop entry (same interval_seconds, same    *)
(* generator state) and goes through the same code with its own timing and  *)
(* its own Setter results.  The two runs are independent processes, so they *)
(* are taken one interval at a time: the first run does interval k, then    *)
(* the second run does interval k.  Both runs are started with --dry-run:   *)
(* all draws of an interval are made before its first set_flag call, and    *)
(* the next interval starts from a fresh clock read, so the Setter has no   *)
(* part in the draws.                                                       *)

TwinCaughtUp ==
    twin.pc = "interval_start" /\ twin.interval_count = drv.interval_count

TwinTurn == twin.pc \in LoopPcs /\ drv.pc = "interval_start" /\ ~TwinCaughtUp

TwinStart ==
    /\ twin.pc = "off"
    /\ drv.pc = "interval_start"
    /\ drv.interval_count = 0
    /\ twin' = [drv EXCEPT !.seed = drv.logged_seed]
    /\ UNCHANGED <<argv, drv, setter, store>>

TwinBeginInterval ==
    /\ TwinTurn
    /\ twin.pc = "interval_start"
    /\ \E elapsed \in Jitter : twin' = begin_interval(twin, elapsed)
    /\ UNCHANGED <<argv, drv, setter, store>>

TwinTrigger ==
    /\ TwinTurn
    /\ twin.pc = "wait_trigger"
    /\ \E overshoot \in Jitter : twin' = trigger(twin, overshoot)
    /\ UNCHANGED <<argv, drv, setter, store>>

\* the results set_flag can have: True at once in dry-run, otherwise either
\* result after the time of a returning call, or False at the timeout
SetFlagResults(d) ==
    IF d.dry_run THEN {<<TRUE, 0>>}
    ELSE (BOOLEAN \X CallTicks) \cup {<<FALSE, TimeoutTicks>>}

TwinActivate ==
    /\ TwinTurn
    /\ twin.pc = "activate"
    /\ \E r \in SetFlagResults(twin) : twin' = activated(twin, r[1], r[2])
    /\ UNCHANGED <<argv, drv, setter, store>>

TwinRevert ==
    /\ TwinTurn
    /\ twin.pc = "active_sleep"
    /\ \E overshoot \in Jitter, r \in SetFlagResults(twin) :
            twin' = reverted(slept(twin, overshoot), r[1], r[2])
    /\ UNCHANGED <<argv, drv, setter, store>>

TwinEndInterval ==
    /\ TwinTurn
    /\ twin.pc = "wait_end"
    /\ \E overshoot \in Jitter : twin' = end_interval(twin, overshoot)
    /\ UNCHANGED <<argv, drv, setter, store>>

DriverTurn == drv.pc # "interval_start" \/ TwinCaughtUp

NextTwin ==
    \/ DriverTurn /\ Next
    \/ TwinStart \/ TwinBeginInterval \/ TwinTrigger
    \/ TwinActivate \/ TwinRevert \/ TwinEndInterval

InitTwin == Init /\ argv.dry_run

SpecTwin == InitTwin /\ [][NextTwin]_vars

----------------------------------------------------------------------------
(* The Setter run from the command line, any number of times, with any      *)
(* arguments                                                                *)

CliFlagNames == AllFlagNames \cup {"list", "unknownFault"}

CliVariants ==
    {"on", "off", "ON", "100%", "90%", "75%", "50%", "25%", "10%", "10sec", "5sec", "1sec"}

CliInvoke ==
    /\ setter.pc \in {"idle", "exited"}
    /\ \E flag_name \in {<<>>} \cup {<<f>> : f \in CliFlagNames},
          variant \in {<<>>} \cup {<<v>> : v \in CliVariants},
          help \in BOOLEAN :
            /\ flag_name = <<>> => variant = <<>>
            /\ setter' = SetterLaunch(flag_name, variant, help)
    /\ UNCHANGED <<argv, drv, twin, store>>

InitSetter ==
    /\ argv = [interval |-> <<>>, dry_run |-> FALSE, seed |-> <<>>]
    /\ drv = DriverOff
    /\ twin = DriverOff
    /\ setter = SetterIdle
    /\ store = StoreBaseline

NextSetter == CliInvoke \/ SetterMain \/ SetterList \/ SetterPost

SpecSetter == InitSetter /\ [][NextSetter]_vars

----------------------------------------------------------------------------
(* parse_args on any interval string: digits, letters of both cases (enough *)
(* for the units h and sec) and a character that is neither                 *)

ParseAlphabet == {"0", "1", "h", "S", "e", "c", "!"}

ParseInputs == UNION {[1 .. n -> ParseAlphabet] : n \in 0 .. MaxStrLen}

InitParse ==
    /\ argv \in [interval : {<<str>> : str \in ParseInputs},
                 dry_run  : {FALSE},
                 seed     : {<<>>}]
    /\ drv = DriverInit
    /\ twin = DriverOff
    /\ setter = SetterIdle
    /\ store = StoreBaseline

NextParse == ParseArgs

SpecParse == InitParse /\ [][NextParse]_vars

----------------------------------------------------------------------------
(* Properties *)

L == drv.interval_seconds
IntervalEnd == drv.interval_seconds * TicksPerSecond

\* the draws of the interval a run has just gone through
Draws(d) == <<d.random_offset, d.flag_name, d.variant, d.flag_duration>>

\* both runs have gone through the same number (at least one) of intervals
BothAfterInterval ==
    drv.pc = "interval_start" /\ TwinCaughtUp /\ drv.interval_count >= 1

\* C1: two runs with the same seed and the same interval length make the same
\* (offset, fault, variant, activeDuration) draws in every interval, whatever
\* the timing of each run.
C1_SameDraws == BothAfterInterval => Draws(drv) = Draws(twin)

\* the activation call of the current interval has returned failure
ActivationFailed == Len(drv.calls) >= 1 /\ ~drv.calls[1].ok

\* the current interval is past its active part
PastActivePart == drv.pc \in {"wait_end", "interval_start"}

\* C2 (as stated): in an interval whose activation call fails, the Driver still
\* reverts the fault to "off" before idling to the interval end.
C2_RevertsAfterFailedActivation ==
    (ActivationFailed /\ PastActivePart) =>
        (Len(drv.calls) = 2 /\ drv.calls[2].variant = "off")

\* C2 (amended): in an interval whose activation call fails, the Driver neither
\* sleeps for the active duration nor calls the Setter to revert; it goes
\* straight to idling until the interval end.
C2_FailedActivationSkipsRevert ==
    ActivationFailed =>
        (/\ drv.pc \in {"wait_end", "interval_start", "exited"}
         /\ Len(drv.calls) = 1)

C2_Witness == ActivationFailed /\ drv.pc = "wait_end" /\ drv.now < IntervalEnd

\* the Driver has just given up the interval without triggering
Skipped ==
    drv.pc = "interval_start" /\ drv.interval_count >= 1 /\ drv.flag_duration = 0

\* C3: the Driver skips triggering only if the interval's end t0 + L has passed
\* when the wait for the trigger returns.
C3_SkipOnlyAfterIntervalEnd == Skipped => drv.now >= IntervalEnd

\* C4: the offset lies in [0, L-1]; a drawn activeDuration lies in
\* [1, max(1, L - offset)], so offset + activeDuration <= L.
C4_DrawRanges ==
    (drv.pc \in LoopPcs \ {"interval_start"}) =>
        /\ 0 <= drv.random_offset /\ drv.random_offset <= L - 1
        /\ drv.flag_duration # 0 =>
            /\ 1 <= drv.flag_duration
            /\ drv.flag_duration <= Max(1, L - drv.random_offset)
            /\ drv.random_offset + drv.flag_duration <= L

C4_Witness ==
    /\ drv.pc = "activate"
    /\ drv.random_offset > 0
    /\ drv.random_offset + drv.flag_duration = L

\* the Setter has been asked to set a flag (neither usage nor list) and has
\* got as far as set_flag's validation
SetCall ==
    /\ setter.pc \in {"post", "exited"}
    /\ ~setter.help
    /\ setter.flag_name # <<>> /\ setter.flag_name # <<"list">>
    /\ setter.variant # <<>>

TargetFlag == setter.flag_name[1]
TargetVariant == setter.variant[1]

\* the pair is one the Setter's usage text lists
InCatalog(flag_name, variant) ==
    flag_name \in DOMAIN usage_variants /\ variant \in usage_variants[flag_name]

\* C5: the document built for a valid (fault, variant) holds exactly the 11
\* known faults, each ENABLED and with its full variant table; the target's
\* default is the variant, productCatalogFailure's default is "on" unless it
\* is the target, every other default is "off".
C5_DocumentShape ==
    setter.sent # <<>> =>
        LET flags == setter.sent[1].flags IN
        /\ DOMAIN flags = DOMAIN usage_variants
        /\ Cardinality(DOMAIN flags) = 11
        /\ \A f \in DOMAIN flags :
            /\ flags[f].state = "ENABLED"
            /\ DOMAIN flags[f].variants = usage_variants[f]
            /\ flags[f].defaultVariant =
                    IF f = TargetFlag THEN TargetVariant
                    ELSE IF f = "productCatalogFailure" THEN "on"
                    ELSE "off"

C5_Witness ==
    /\ setter.sent # <<>>
    /\ TargetFlag = "productCatalogFailure"
    /\ TargetVariant = "off"
    /\ setter.sent[1].flags["productCatalogFailure"].defaultVariant = "off"

\* the faults other than productCatalogFailure whose default in the store is not "off"
ActiveFaults ==
    {f \in DOMAIN store.flags \ {"productCatalogFailure"} :
        store.flags[f].defaultVariant # "off"}

\* C6: under the Driver, whatever writes succeed or fail, the store has at
\* most one fault besides productCatalogFailure with a default other than
\* "off"; every write that reaches the store leaves every fault but
\* productCatalogFailure and its own target at "off".
C6_AtMostOneActive ==
    /\ [](Cardinality(ActiveFaults) <= 1)
    /\ [][store' # store =>
            \A f \in DOMAIN store'.flags \ {"productCatalogFailure", TargetFlag} :
                store'.flags[f].defaultVariant = "off"]_vars

\* a fault left active by an earlier interval, while a later interval is
\* about to write another fault
C6_Witness ==
    /\ drv.interval_count >= 2
    /\ drv.pc = "activate_call"
    /\ setter.pc = "post"
    /\ ActiveFaults # {}
    /\ drv.flag_name \notin ActiveFaults
    /\ drv.flag_name # "productCatalogFailure"

\* the Driver has entered its loop (the seed is logged just before)
EnteredLoop == drv.pc \in LoopPcs \/ (drv.pc = "exited" /\ drv.logged_seed # <<>>)

\* the current interval has been triggered and its active part is over
TriggeredAndDone == drv.pc = "wait_end"

\* C7: in dry-run the Driver's set_flag starts no Setter process (the only
\* Setter process ever run is the startup probe), no request is made and the
\* store is untouched; every set_flag call returns success, so every triggered
\* interval does the activation, the sleep and the revert.
C7_DryRun ==
    (drv.dry_run /\ EnteredLoop) =>
        /\ setter.help /\ setter.posts = 0 /\ setter.gets = 0 /\ setter.sent = <<>>
        /\ store = StoreBaseline
        /\ drv.pc \notin {"activate_call", "revert_call"}
        /\ \A i \in DOMAIN drv.calls : drv.calls[i].ok
        /\ TriggeredAndDone =>
            /\ Len(drv.calls) = 2
            /\ drv.calls[1] = [flag_name |-> drv.flag_name, variant |-> drv.variant, ok |-> TRUE]
            /\ drv.calls[2] = [flag_name |-> drv.flag_name, variant |-> "off", ok |-> TRUE]
            /\ drv.now >= (drv.random_offset + drv.flag_duration) * TicksPerSecond

C7_Witness ==
    /\ drv.dry_run
    /\ drv.interval_count = MaxIntervals
    /\ TriggeredAndDone
    /\ Len(drv.calls) = 2

\* C8: for a pair that is not in the catalog the Setter's set_flag fails
\* without any request; for a pair in the catalog, "off" included, validation
\* passes and exactly one POST, of the full document, is attempted.
C8_ValidationGatesThePost ==
    SetCall =>
        IF InCatalog(TargetFlag, TargetVariant)
        THEN /\ setter.pc = "exited" =>
                    /\ setter.posts = 1
                    /\ setter.sent = <<construct_json(TargetFlag, TargetVariant)>>
             /\ setter.pc = "post" => setter.posts = 0
        ELSE /\ setter.pc = "exited"
             /\ setter.exit_code = <<1>>
             /\ setter.posts = 0
             /\ setter.sent = <<>>

C8_Witness ==
    /\ SetCall
    /\ setter.pc = "exited"
    /\ TargetFlag = "kafkaQueueProblems"
    /\ TargetVariant = "off"
    /\ setter.posts = 1
    /\ setter.exit_code = <<0>>

\* the wire values the flag catalog documents
DocumentedValue ==
    [f \in boolean_flags |-> ("on" :> "true") @@ ("off" :> "false")] @@
    [f \in numeric_flags |-> ("on" :> "100") @@ ("off" :> "0")] @@
    ("paymentFailure" :>
        (("100%" :> "1") @@ ("90%" :> "0.95") @@ ("75%" :> "0.75") @@
         ("50%" :> "0.5") @@ ("25%" :> "0.25") @@ ("10%" :> "0.1") @@ ("off" :> "0"))) @@
    ("imageSlowLoad" :> (("10sec" :> "10000") @@ ("5sec" :> "5000") @@ ("off" :> "0")))

\* C9: for every pair in the catalog get_variant_value returns the documented
\* wire value, which is also the entry of that variant in the table
\* get_all_variants puts into the document; for every other pair it returns None.
C9_ValueMatchesTable ==
    SetCall =>
        IF InCatalog(TargetFlag, TargetVariant)
        THEN /\ setter.variant_value = DocumentedValue[TargetFlag][TargetVariant]
             /\ setter.variant_value = get_all_variants(TargetFlag)[TargetVariant]
             /\ setter.sent # <<>> =>
                    setter.sent[1].flags[TargetFlag].variants[TargetVariant]
                        = setter.variant_value
        ELSE setter.variant_value = None

C9_Witness ==
    /\ SetCall
    /\ TargetFlag = "paymentFailure"
    /\ TargetVariant = "90%"
    /\ setter.sent # <<>>
    /\ setter.variant_value = "0.95"

\* C10: an interrupt at any point of the loop ends the Driver with exit code
\* 0 and without a further Setter call: the step of the interrupt starts no
\* Setter, leaves none running and does not touch the store, and nothing
\* happens after it; a fault activated before the interrupt stays as it is.
C10_InterruptExitsCleanly ==
    /\ [][(drv.pc \in LoopPcs /\ drv'.pc = "exited") =>
            /\ drv'.exit_code = <<0>>
            /\ drv'.calls = drv.calls
            /\ ~SetterRunning(setter')
            /\ setter'.posts = setter.posts
            /\ store' = store]_vars
    /\ [][drv.pc = "exited" => UNCHANGED <<drv, setter, store>>]_vars

\* interrupted during the active window: the fault is left active in the store
C10_Witness ==
    /\ drv.pc = "exited"
    /\ drv.exit_code = <<0>>
    /\ Len(drv.calls) = 1 /\ drv.calls[1].ok
    /\ drv.flag_name # "productCatalogFailure"
    /\ store.flags[drv.flag_name].defaultVariant = drv.variant

\* the Driver is inside chaos_loop (past parse_args and validate_toggle_script)
InChaosLoop == drv.pc \in LoopPcs \cup {"loop_setup"}

\* the Driver has ended before chaos_loop
ExitedAtStartup == drv.pc = "exited" /\ drv.logged_seed = <<>>

\* C11: the Driver gets into its loop only with an interval string that parses
\* to at least 10 seconds and right after a Setter probe (--help) that exited
\* with code 0; with an invalid or too short interval, or a probe that is
\* missing, fails, raises or times out, the process exits with code 1 and
\* never begins an interval.
C11_LoopOnlyAfterValidation ==
    /\ [](InChaosLoop =>
            /\ argv.interval # <<>>
            /\ parse_interval(argv.interval[1]) >= 10
            /\ drv.interval_seconds = parse_interval(argv.interval[1]))
    /\ []((argv.interval # <<>> /\ parse_interval(argv.interval[1]) < 10) =>
            /\ drv.pc \in {"parse_args", "exited"}
            /\ drv.pc = "exited" => drv.exit_code = <<1>>)
    /\ []((ExitedAtStartup /\ argv.interval # <<>>) =>
            /\ drv.exit_code = <<1>>
            /\ drv.interval_count = 0 /\ drv.calls = <<>>)
    /\ [][(drv.pc \in {"validate", "probe_call"}) =>
            /\ drv'.pc = "loop_setup" =>
                    (setter.help /\ setter.pc = "exited" /\ setter.exit_code = <<0>>)
            /\ (drv.pc = "probe_call" /\ drv'.pc # drv.pc
                    /\ ~(setter.pc = "exited" /\ setter.exit_code = <<0>>)) =>
                    (drv'.pc = "exited" /\ drv'.exit_code = <<1>>)
            /\ drv'.pc \in {"validate", "probe_call", "loop_setup", "exited"}]_vars

C11_Witness ==
    /\ drv.pc = "wait_trigger"
    /\ drv.interval_count = 1
    /\ drv.interval_seconds = MinIntervalSeconds
    /\ setter.help /\ setter.exit_code = <<0>>

\* the whole string is <digits><letters>, the number is positive and the
\* letters, in lower case, are a known unit
WholeStringValid(str) ==
    LET nd == DigitsLen(str, 1)
        nl == LettersLen(str, nd + 1)
    IN  /\ nd >= 1 /\ nl >= 1 /\ nd + nl = Len(str)
        /\ ParseInt(SubSeq(str, 1, nd)) > 0
        /\ [i \in 1 .. nl |-> Lower(str[nd + i])] \in DOMAIN unit_multipliers

\* the seconds the grammar gives a string, 0 standing for invalid
GrammarSeconds(str) ==
    IF WholeStringValid(str)
    THEN LET nd == DigitsLen(str, 1) IN
         ParseInt(SubSeq(str, 1, nd))
            * unit_multipliers[[i \in 1 .. Len(str) - nd |-> Lower(str[nd + i])]]
    ELSE 0

\* C12: parse_interval returns number * multiplier when the whole string is
\* <positive integer><unit>, and 0 (invalid) for every other string, also for
\* a valid <integer><unit> followed by more characters.
C12_WholeStringGrammar ==
    (drv.pc # "parse_args" /\ argv.interval # <<>>) =>
        drv.interval_seconds = GrammarSeconds(argv.interval[1])

\* the Setter process has ended on its own after being asked to set a flag
SetterSetEnded ==
    setter.pc = "exited" /\ ~setter.help /\ setter.flag_name # <<>> /\ setter.variant # <<>>

\* the pair passed validation and the one POST was answered with 200 or 201
ValidatedAndStored ==
    /\ setter.variant_value # None
    /\ setter.posts = 1
    /\ setter.response # <<>>
    /\ setter.response[1].kind = "response"
    /\ setter.response[1].status \in {200, 201}

\* the step adds the result of a set_flag call to the Driver's calls
SetFlagResultStep == Len(drv'.calls) = Len(drv.calls) + 1

\* C13: outside dry-run the Driver's set_flag returns success exactly when the
\* Setter process (started for that pair) exited with code 0, and the Setter
\* exits with code 0 exactly when the pair passed validation and the single
\* POST returned 200 or 201; any other status, a request exception and a
\* timeout of the process give failure.
C13_SuccessIffStored ==
    /\ [](SetterSetEnded => (setter.exit_code = <<0>> <=> ValidatedAndStored))
    /\ [][(SetFlagResultStep /\ ~drv.dry_run) =>
            LET c == drv'.calls[Len(drv'.calls)] IN
            c.ok <=> (/\ drv.pc \in {"activate_call", "revert_call"}
                      /\ setter.pc = "exited"
                      /\ setter.exit_code = <<0>>
                      /\ setter.flag_name = <<c.flag_name>>
                      /\ setter.variant = <<c.variant>>
                      /\ ValidatedAndStored)]_vars

C13_Witness ==
    /\ ~drv.dry_run
    /\ drv.pc = "wait_end"
    /\ Len(drv.calls) = 2
    /\ drv.calls[1].ok /\ ~drv.calls[2].ok
    /\ setter.pc = "exited"
    /\ setter.response # <<>> /\ setter.response[1].status = 204

\* the step starts a Setter process for a set_flag call of the Driver
SetterStartStep == setter'.pc = "main" /\ ~setter'.help

\* C14: in every interval the Driver makes at most one activation call and at
\* most one revert call, in that order; the revert comes only after the
\* activation call of the same interval and names the same fault; a call that
\* has failed is not made again.
C14_OneActivationOneRevert ==
    /\ [](drv.pc \in LoopPcs =>
            /\ Len(drv.calls) <= 2
            /\ Len(drv.calls) >= 1 =>
                    /\ drv.calls[1].variant # "off"
                    /\ drv.calls[1].flag_name = drv.flag_name
                    /\ drv.calls[1].variant = drv.variant
            /\ Len(drv.calls) = 2 =>
                    /\ drv.calls[2].variant = "off"
                    /\ drv.calls[2].flag_name = drv.calls[1].flag_name
                    /\ drv.pc \in {"wait_end", "interval_start"}
            /\ drv.pc \in {"wait_trigger", "activate", "activate_call"} => drv.calls = <<>>
            /\ drv.pc \in {"active_sleep", "revert_call"} => Len(drv.calls) = 1)
    /\ [][SetterStartStep =>
            \/ /\ drv.pc = "activate" /\ drv.calls = <<>>
               /\ setter'.flag_name = <<drv.flag_name>>
               /\ setter'.variant = <<drv.variant>>
            \/ /\ drv.pc = "active_sleep" /\ Len(drv.calls) = 1
               /\ setter'.flag_name = <<drv.calls[1].flag_name>>
               /\ setter'.variant = <<"off">>]_vars

\* a revert that failed, after which the Driver idles
C14_Witness ==
    /\ ~drv.dry_run
    /\ drv.pc = "wait_end"
    /\ Len(drv.calls) = 2
    /\ ~drv.calls[2].ok
    /\ drv.interval_count = MaxIntervals

\* an interval has ended and the next start instant is about to be taken
IntervalOver == drv.pc = "interval_start" /\ drv.interval_count >= 1

\* C15: interval k+1 begins no earlier than the end instant t0_k + L of
\* interval k, on every path through interval k (triggered, activation failed,
\* trigger skipped).
C15_NoEarlyStart == IntervalOver => drv.now >= IntervalEnd

\* the step on which time.sleep(flag_duration) returns and the revert is called
RevertIssuedStep == drv.pc = "active_sleep" /\ drv'.pc # "exited"

\* the instant the active sleep is due to end (a sleep does not return early)
SleepDue == drv.now + drv.flag_duration * TicksPerSecond

\* C16: in every triggered interval the revert call is issued no later than the
\* interval's end instant t0+L, also when the activation call has itself taken
\* time before the sleep of flag_duration starts.
C16_RevertInsideInterval == [][RevertIssuedStep => SleepDue <= IntervalEnd]_vars

\* the Driver is inside an interval that has not ended yet
InsideInterval == drv.pc \in LoopPcs \ {"interval_start"}

\* the Driver is in the loop and has begun k intervals
BegunIntervals(k) == drv.pc \in LoopPcs /\ drv.interval_count = k

\* C17: when the run is not cancelled the Driver neither stops nor stalls,
\* whatever the Setter calls give: every interval ends, the next interval
\* begins, and the interval counter goes up by exactly one per iteration.
C17_LoopNeverStops ==
    /\ InsideInterval ~> drv.pc = "interval_start"
    /\ \A k \in 0 .. MaxIntervals - 1 : BegunIntervals(k) ~> BegunIntervals(k + 1)
    /\ [][/\ drv.pc \in LoopPcs => drv'.pc \in LoopPcs
          /\ drv'.interval_count = IF drv.pc = "interval_start" /\ drv'.pc # "interval_start"
                                   THEN drv.interval_count + 1
                                   ELSE drv.interval_count]_vars

\* the next interval has begun after a Setter call that ran into its timeout
C17_Witness ==
    /\ drv.pc = "wait_trigger"
    /\ drv.interval_count = MaxIntervals
    /\ setter.pc = "killed"
    /\ ~setter.help

\* the revert write of the current interval has succeeded
RevertSucceeded ==
    /\ ~drv.dry_run
    /\ drv.pc = "wait_end"
    /\ Len(drv.calls) = 2
    /\ drv.calls[2].ok

\* C18: after the Driver's revert write for an interval succeeds the store is
\* back at the baseline, productCatalogFailure at "on" and every other fault at
\* "off", whichever fault was activated in that interval.
C18_RevertRestoresBaseline == RevertSucceeded => store = StoreBaseline

\* the Driver is at the top of the loop before any draw of the loop
BeforeFirstDraw == drv.pc = "interval_start" /\ drv.interval_count = 0

\* C19: the generator is seeded exactly once per process, before the first draw
\* of the loop, and not again during the loop; the seed written to the startup
\* log is the value the generator was seeded with, with --seed and without, so
\* the generator state at the first draw of the loop is that of a run started
\* with --seed <logged value>.
C19_SeededOnceAndLogged ==
    /\ [](drv.pc \in LoopPcs =>
            /\ drv.seedings = 1
            /\ drv.logged_seed # <<>>
            /\ drv.logged_seed[1] \in Seeds
            /\ drv.seed # <<>> => drv.logged_seed = drv.seed)
    /\ [](BeforeFirstDraw => drv.rng = <<RngSeed(drv.logged_seed[1])>>)
    /\ [][drv.pc \in LoopPcs => drv'.seedings = drv.seedings]_vars
    /\ [][drv'.rng # drv.rng /\ drv'.seedings = drv.seedings =>
            /\ drv.pc \in {"interval_start", "wait_trigger"}
            /\ drv.seedings = 1]_vars

\* a run without --seed that has logged a fresh seed and made draws from it
C19_Witness ==
    /\ drv.seed = <<>>
    /\ drv.logged_seed # <<>>
    /\ drv.seedings = 1
    /\ drv.pc = "wait_trigger"
    /\ drv.interval_count = MaxIntervals

\* the pairs the Driver can pass to the Setter: the drawable ones and the reverts
DriverPairs ==
    {<<f, v>> : f \in Range(available_flag_keys), v \in {"off"}}
    \cup UNION {{<<f, v>> : v \in Range(available_flags[f])} : f \in Range(available_flag_keys)}

\* main() of a Setter started by set_flag of the Driver has run
DriverSetterMainStep ==
    /\ drv.pc \in {"activate_call", "revert_call"}
    /\ setter.pc = "main"
    /\ setter' = SetterMainStep(setter)

\* C20: every pair the Driver can draw from available_flags, and the revert
\* pair of every fault it can draw, passes the Setter's validation, so the
\* Setter never rejects a pair in the Driver's loop; available_flags covers all
\* 11 faults and every variant but "off" of the Setter's catalog.
C20_DriverPairsValid ==
    /\ [](/\ \A p \in DriverPairs : ~is_invalid(get_variant_value(p[1], p[2]))
          /\ Range(available_flag_keys) = AllFlagNames
          /\ DOMAIN available_flags = AllFlagNames
          /\ Cardinality(AllFlagNames) = 11
          /\ \A f \in AllFlagNames :
                Range(available_flags[f]) = DOMAIN get_all_variants(f) \ {"off"})
    /\ [](drv.pc \in {"activate", "activate_call", "active_sleep", "revert_call"} =>
            /\ <<drv.flag_name, drv.variant>> \in DriverPairs
            /\ drv.variant # "off")
    /\ [][DriverSetterMainStep =>
            /\ <<setter.flag_name[1], setter.variant[1]>> \in DriverPairs
            /\ setter'.pc = "post"
            /\ setter'.variant_value # None]_vars

\* the revert of a numeric fault, whose value 0 has passed the validation
C20_Witness ==
    /\ drv.pc = "revert_call"
    /\ setter.pc = "post"
    /\ setter.variant = <<"off">>
    /\ setter.variant_value = "0"

\* every fault of the document has a default that is one of its own variants
WellFormed(doc) ==
    \A f \in DOMAIN doc.flags :
        doc.flags[f].defaultVariant \in DOMAIN doc.flags[f].variants

\* C21: every document the Setter sends to the write endpoint is well formed:
\* for each of its faults the defaultVariant is a key of that fault's own
\* variants table, whatever the arguments of the calls; so is every document
\* the service has stored.
C21_SentDocumentsWellFormed ==
    /\ setter.sent # <<>> => WellFormed(setter.sent[1])
    /\ WellFormed(store)
    /\ setter.pc = "post" =>
            WellFormed(construct_json(setter.flag_name[1], setter.variant[1]))

\* a document sent for a fault whose variants are not on and off, after which
\* the service holds it
C21_Witness ==
    /\ setter.pc = "exited"
    /\ setter.sent # <<>>
    /\ setter.flag_name = <<"paymentFailure">>
    /\ setter.sent[1].flags["paymentFailure"].defaultVariant = "90%"
    /\ store = setter.sent[1]

====
